---- MODULE Spec2Model ----
(***************************************************************************)
(* A model of the subtitle translation pipeline of src/main.py             *)
(* (SrtTranslator: parse_srt, translate_batch, translate_srt_content).     *)
(*                                                                         *)
(* A Python str is modelled as a sequence of one-character strings, so     *)
(* that strip(), split(), join(), int() and the f-string formatting are    *)
(* computed as the code computes them.  A list of str is a sequence of     *)
(* such sequences.                                                         *)
(***************************************************************************)
EXTENDS Integers, Sequences, FiniteSets, TLC

(***************************************************************************)
(* Bounds of the model.                                                    *)
(***************************************************************************)
\* most blocks in an input document
MaxBlocks == 3
\* largest batch_size tried
MaxBatchSize == 2
\* most lines a remote answer holds beyond the lines requested
MaxExtraLines == 1
\* most text lines handed to translate_batch when it is exercised alone
MaxBatchInput == 3

(***************************************************************************)
(* Program constants (SrtTranslator.__init__).                             *)
(***************************************************************************)
max_retries == 3
retry_delay == 1

(***************************************************************************)
(* Characters and the str methods the code uses.                           *)
(***************************************************************************)
NL == "\n"
SP == " "
Whitespace == {SP, NL}
Digits == <<"0", "1", "2", "3", "4", "5", "6", "7", "8", "9">>
DigitSet == {Digits[d] : d \in 1..10}

Min(a, b) == IF a < b THEN a ELSE b

DigitVal(c) == (CHOOSE d \in 1..10 : Digits[d] = c) - 1

\* str.lstrip()
RECURSIVE LStrip(_)
LStrip(s) ==
    IF s # <<>> /\ Head(s) \in Whitespace THEN LStrip(Tail(s)) ELSE s

\* str.rstrip()
RECURSIVE RStrip(_)
RStrip(s) ==
    IF s # <<>> /\ s[Len(s)] \in Whitespace
    THEN RStrip(SubSeq(s, 1, Len(s) - 1))
    ELSE s

\* str.strip()
Strip(s) == RStrip(LStrip(s))

\* str.find(sep) + 1: the first position where sep occurs in s, 0 if none
Find(s, sep) ==
    LET hits == {p \in 1..(Len(s) - Len(sep) + 1) :
                    SubSeq(s, p, p + Len(sep) - 1) = sep}
    IN  IF hits = {} THEN 0 ELSE CHOOSE p \in hits : \A q \in hits : p <= q

\* str.split(sep)
RECURSIVE Split(_, _)
Split(s, sep) ==
    LET p == Find(s, sep)
    IN  IF p = 0
        THEN <<s>>
        ELSE <<SubSeq(s, 1, p - 1)>> \o Split(SubSeq(s, p + Len(sep), Len(s)), sep)

\* sep.join(parts)
RECURSIVE Join(_, _)
Join(parts, sep) ==
    IF parts = <<>> THEN <<>>
    ELSE IF Len(parts) = 1 THEN parts[1]
    ELSE parts[1] \o sep \o Join(Tail(parts), sep)

\* whether int(s) returns rather than raising ValueError, for s over the
\* characters of the model (no sign, no underscore)
IsInt(s) ==
    LET t == Strip(s)
    IN  t # <<>> /\ \A k \in 1..Len(t) : t[k] \in DigitSet

\* int(s), for s with IsInt(s)
RECURSIVE DecimalValue(_)
DecimalValue(t) ==
    IF t = <<>> THEN 0
    ELSE 10 * DecimalValue(SubSeq(t, 1, Len(t) - 1)) + DigitVal(t[Len(t)])

IntOf(s) == DecimalValue(Strip(s))

\* str(n) for an int n >= 0, as the f-string formats the id
RECURSIVE Str(_)
Str(n) ==
    IF n < 10 THEN <<Digits[n + 1]>>
    ELSE Str(n \div 10) \o <<Digits[(n % 10) + 1]>>

(***************************************************************************)
(* SrtTranslator.parse_srt (src/main.py).  A parsed entry is the dict      *)
(* {'id', 'timestamp', 'text'}; the key 'translated_text' is added by the  *)
(* batch loop, and NoTranslation stands for the key being absent.          *)
(***************************************************************************)
NoTranslation == <<"<absent>">>

Entry(id, timestamp, text) ==
    [id |-> id, timestamp |-> timestamp, text |-> text,
     translated_text |-> NoTranslation]

\* the body of the loop over blocks: the entries one block contributes
ParseBlock(block) ==
    LET lines == Split(block, <<NL>>)
    IN  IF Len(lines) >= 3 /\ IsInt(lines[1])
        THEN <<Entry(IntOf(lines[1]), lines[2],
                     Join(SubSeq(lines, 3, Len(lines)), <<NL>>))>>
        ELSE <<>>

RECURSIVE ParseBlocks(_)
ParseBlocks(blocks) ==
    IF blocks = <<>> THEN <<>>
    ELSE ParseBlock(Head(blocks)) \o ParseBlocks(Tail(blocks))

parse_srt(content) == ParseBlocks(Split(Strip(content), <<NL, NL>>))

(***************************************************************************)
(* The serialisation loop of translate_srt_content (lines 159-163).        *)
(***************************************************************************)
FormatBlock(subtitle) ==
    Str(subtitle.id) \o <<NL>> \o subtitle.timestamp \o <<NL>>
        \o subtitle.translated_text \o <<NL, NL>>

RECURSIVE FormatSrt(_)
FormatSrt(subs) ==
    IF subs = <<>> THEN <<>>
    ELSE FormatBlock(Head(subs)) \o FormatSrt(Tail(subs))

(***************************************************************************)
(* Input documents.  Block k of a document is written in one of these      *)
(* shapes; its id line is k and its timestamp line is "t" k.               *)
(***************************************************************************)
Kinds == {"plain", "spaced", "multi", "zeroid", "badid", "short"}

BlockLines(k, kind) ==
    LET id == Str(k)
        ts == <<"t">> \o Str(k)
    IN  CASE kind = "plain"  -> <<id, ts, <<"a">>>>
          [] kind = "spaced" -> <<id \o <<SP>>, ts \o <<SP>>, <<"a", SP>>>>
          [] kind = "multi"  -> <<id, ts, <<"a">>, <<"b">>>>
          [] kind = "zeroid" -> <<<<"0">> \o id, ts, <<"a">>>>
          [] kind = "badid"  -> <<<<"x">>, ts, <<"a">>>>
          [] kind = "short"  -> <<id, ts>>

\* the text of a document whose k-th block has shape kinds[k]
Document(kinds, tail) ==
    Join([k \in 1..Len(kinds) |-> Join(BlockLines(k, kinds[k]), <<NL>>)],
         <<NL, NL>>) \o tail

KindSeqs == UNION {[1..n -> Kinds] : n \in 0..MaxBlocks}

\* documents given to translate_srt_content: at most one block is not plain
Documents ==
    {Document(ks, <<NL, NL>>) :
        ks \in {x \in KindSeqs :
                  Cardinality({k \in 1..Len(x) : x[k] # "plain"}) <= 1}}

(***************************************************************************)
(* The remote call model.generate_content(...) and response.text.          *)
(* It either raises, or returns a response whose .text raises (no text     *)
(* part), or returns a response with a text of any number of lines.        *)
(***************************************************************************)
Failures == {"raises", "no_text"}

TranslatedLine(j) == <<"m", Digits[j + 1]>>

ResponseBody(k) == Join([j \in 1..k |-> TranslatedLine(j)], <<NL>>)

\* the texts the remote call may answer to a request of n lines
ResponseTexts(n) ==
    LET bodies == {ResponseBody(k) : k \in 0..(n + MaxExtraLines)}
    IN  bodies \cup {<<NL>> \o b \o <<SP, NL>> : b \in bodies}

(***************************************************************************)
(* SrtTranslator.translate_batch: its pieces.                              *)
(***************************************************************************)
Sentinel ==
    <<"T", "R", "A", "N", "S", "L", "A", "T", "I", "O", "N", "_",
      "E", "R", "R", "O", "R">>

\* AdjustLines without the padding branch
AdjustLinesNoPad(lines, n) ==
    IF Len(lines) > n THEN SubSeq(lines, 1, n) ELSE lines

\* AdjustLines without the truncation branch
AdjustLinesNoTruncate(lines, n) ==
    IF Len(lines) < n
    THEN lines \o [j \in 1..(n - Len(lines)) |-> <<>>]
    ELSE lines

\* lines 76-82: force the number of lines to n
AdjustLines(lines, n) ==
    IF Len(lines) # n
    THEN IF Len(lines) > n
         THEN SubSeq(lines, 1, n)
         ELSE lines \o [j \in 1..(n - Len(lines)) |-> <<>>]
    ELSE lines

\* empty translations on failure, as the comment of line 92 has it
EmptyLines(n) == [j \in 1..n |-> <<>>]

\* line 93
SentinelLines(n) == [j \in 1..n |-> Sentinel]

\* a constant delay instead of the attempt-indexed one
RetryDelayConstant(a) == retry_delay

\* line 89: the argument of time.sleep after a failed attempt
RetryDelay(a) == retry_delay * (a + 1)

\* line 87
MayRetry(a) == a < max_retries - 1

(***************************************************************************)
(* State.                                                                  *)
(*   srt_content, batch_size, has_callback : the arguments of the run      *)
(*   pc, result            : position in translate_srt_content, how it ended *)
(*   subtitles, total_blocks, i, batch_end, translated_content : its locals *)
(*   tb_pc                 : position in translate_batch                   *)
(*   text_lines, attempt, response_lines, translated_lines : its locals    *)
(* and what the run did, as the outside sees it:                           *)
(*   progress_log  : the fractions passed to progress_callback, <<num, den>> *)
(*   pause_log     : the time.sleep(1) calls of the batch loop, <<batch_end, *)
(*                   seconds>>                                             *)
(*   batches       : the slices taken, <<i, batch_end>>                    *)
(*   batch_outcomes: per finished batch, what translate_batch returned     *)
(*   calls, sleeps, exhausted : the remote calls and time.sleep calls of   *)
(*                   the translate_batch call in progress                  *)
(***************************************************************************)
VARIABLES srt_content, batch_size, has_callback, pc, result,
          subtitles, total_blocks, i, batch_end, translated_content,
          tb_pc, text_lines, attempt, response_lines, translated_lines,
          progress_log, pause_log, batches, batch_outcomes,
          calls, sleeps, exhausted

args == <<srt_content, batch_size, has_callback>>
doc_vars == <<pc, result, subtitles, total_blocks, i, batch_end,
              translated_content, progress_log, pause_log, batches,
              batch_outcomes>>
tb_vars == <<tb_pc, text_lines, attempt, response_lines, translated_lines,
             calls, sleeps, exhausted>>
vars == <<args, doc_vars, tb_vars>>

\* translate_batch not entered yet
TbIdle ==
    /\ tb_pc = "idle"
    /\ text_lines = <<>>
    /\ attempt = 0
    /\ response_lines = <<>>
    /\ translated_lines = <<>>
    /\ calls = 0
    /\ sleeps = <<>>
    /\ exhausted = FALSE

Init ==
    /\ srt_content \in Documents
    /\ batch_size \in 1..MaxBatchSize
    /\ has_callback \in BOOLEAN
    /\ pc = "start"
    /\ result = "none"
    /\ subtitles = <<>>
    /\ total_blocks = 0
    /\ i = 0
    /\ batch_end = 0
    /\ translated_content = <<>>
    /\ progress_log = <<>>
    /\ pause_log = <<>>
    /\ batches = <<>>
    /\ batch_outcomes = <<>>
    /\ TbIdle

(***************************************************************************)
(* translate_srt_content, lines 128-132: parse and enter the loop.         *)
(***************************************************************************)
Parse ==
    /\ pc = "start"
    /\ subtitles' = parse_srt(srt_content)
    /\ total_blocks' = Len(subtitles')
    /\ i' = 0
    /\ pc' = "loop"
    /\ UNCHANGED <<args, result, batch_end, translated_content, progress_log,
                   pause_log, batches, batch_outcomes, tb_vars>>

\* the batch end without the min against total_blocks
BatchEndUnclipped(i0) == i0 + batch_size

\* line 136
BatchEnd(i0) == Min(i0 + batch_size, total_blocks)

\* the fraction of the entries up to the unclipped end of the batch
ProgressOvershoot(i0) == <<i0 + batch_size, total_blocks>>

\* line 143: the fraction i / total_blocks
Progress(i0) == <<i0, total_blocks>>

\* line 137 and 146: the texts of subtitles[i0:e]
BatchTexts(i0, e) == [j \in 1..(e - i0) |-> subtitles[i0 + j].text]

(***************************************************************************)
(* Lines 135-149: one iteration starts: slice, progress, call              *)
(* translate_batch.                                                        *)
(***************************************************************************)
BeginBatch ==
    /\ pc = "loop"
    /\ i < total_blocks
    /\ batch_end' = BatchEnd(i)
    /\ batches' = Append(batches, <<i, batch_end'>>)
    /\ progress_log' = IF has_callback
                       THEN Append(progress_log, Progress(i))
                       ELSE progress_log
    /\ text_lines' = BatchTexts(i, Min(batch_end', total_blocks))
    /\ tb_pc' = "entry"
    /\ pc' = "translating"
    /\ UNCHANGED <<args, result, subtitles, total_blocks, i,
                   translated_content, pause_log, batch_outcomes,
                   attempt, response_lines, translated_lines, calls, sleeps,
                   exhausted>>

(***************************************************************************)
(* translate_batch, lines 59-65: empty input returns [], else attempt 0.   *)
(***************************************************************************)
EnterTranslateBatch ==
    /\ tb_pc = "entry"
    /\ IF text_lines = <<>>
       THEN /\ translated_lines' = <<>>
            /\ tb_pc' = "return"
       ELSE /\ translated_lines' = translated_lines
            /\ tb_pc' = "call"
    /\ attempt' = 0
    /\ UNCHANGED <<args, doc_vars, text_lines, response_lines, calls, sleeps,
                   exhausted>>

(***************************************************************************)
(* Lines 67-84: the remote call answers with a text.                       *)
(***************************************************************************)
RemoteSucceeds ==
    /\ tb_pc = "call"
    /\ \E text \in ResponseTexts(Len(text_lines)) :
          /\ response_lines' = Split(Strip(text), <<NL>>)
          /\ translated_lines' = AdjustLines(response_lines', Len(text_lines))
    /\ calls' = calls + 1
    /\ tb_pc' = "return"
    /\ UNCHANGED <<args, doc_vars, text_lines, attempt, sleeps, exhausted>>

(***************************************************************************)
(* Lines 86-89: the attempt fails and another is left: sleep, next attempt. *)
(***************************************************************************)
RemoteFailsRetry ==
    /\ tb_pc = "call"
    /\ \E f \in Failures : TRUE
    /\ MayRetry(attempt)
    /\ sleeps' = Append(sleeps, RetryDelay(attempt))
    /\ attempt' = attempt + 1
    /\ calls' = calls + 1
    /\ UNCHANGED <<args, doc_vars, tb_pc, text_lines, response_lines,
                   translated_lines, exhausted>>

\* the last failure escaping translate_batch and translate_srt_content
RemoteFailsLastRaises ==
    /\ tb_pc = "call"
    /\ ~MayRetry(attempt)
    /\ pc = "translating"
    /\ pc' = "done"
    /\ result' = "raised"
    /\ tb_pc' = "raised"
    /\ calls' = calls + 1
    /\ UNCHANGED <<args, subtitles, total_blocks, i, batch_end,
                   translated_content, progress_log, pause_log, batches,
                   batch_outcomes, text_lines, attempt, response_lines,
                   translated_lines, sleeps, exhausted>>

(***************************************************************************)
(* Lines 90-93: the last attempt fails: return the sentinel lines.         *)
(***************************************************************************)
RemoteFailsLast ==
    /\ tb_pc = "call"
    /\ \E f \in Failures : TRUE
    /\ ~MayRetry(attempt)
    /\ translated_lines' = SentinelLines(Len(text_lines))
    /\ exhausted' = TRUE
    /\ calls' = calls + 1
    /\ tb_pc' = "return"
    /\ UNCHANGED <<args, doc_vars, text_lines, attempt, response_lines,
                   sleeps>>

\* the write without the batch offset: subtitles[j] instead of subtitles[i0 + j]
WithTranslationsNoOffset(subs, i0, lines) ==
    [k \in 1..Len(subs) |->
        IF k <= Len(lines)
        THEN [subs[k] EXCEPT !.translated_text = lines[k]]
        ELSE subs[k]]

\* lines 152-153: subtitles[i0 + j]['translated_text'] = translated_texts[j]
WithTranslations(subs, i0, lines) ==
    [k \in 1..Len(subs) |->
        IF k > i0 /\ k <= i0 + Len(lines)
        THEN [subs[k] EXCEPT !.translated_text = lines[k - i0]]
        ELSE subs[k]]

\* pausing after the final batch too
PauseAlways(e) == e <= total_blocks

\* line 156
PauseNeeded(e) == e < total_blocks

(***************************************************************************)
(* Lines 149-156: translate_batch has returned: write its lines into the   *)
(* entries, then either pause or go to the next iteration.  Writing past   *)
(* the end of subtitles raises IndexError, which the except clause of line *)
(* 171 logs and raises again.                                              *)
(***************************************************************************)
WriteResults ==
    /\ pc = "translating"
    /\ tb_pc = "return"
    /\ subtitles' = WithTranslations(subtitles, i, translated_lines)
    /\ batch_outcomes' = Append(batch_outcomes,
            [start |-> i, end |-> batch_end, failed |-> exhausted,
             submitted |-> calls >= 1, lines |-> translated_lines])
    /\ IF i + Len(translated_lines) > Len(subtitles)
       THEN /\ pc' = "done"
            /\ i' = i
            /\ result' = "raised"
       ELSE /\ result' = result
            /\ IF PauseNeeded(batch_end)
               THEN /\ pc' = "pause"
                    /\ i' = i
               ELSE /\ pc' = "loop"
                    /\ i' = i + batch_size
    /\ tb_pc' = "idle"
    /\ text_lines' = <<>>
    /\ attempt' = 0
    /\ response_lines' = <<>>
    /\ translated_lines' = <<>>
    /\ calls' = 0
    /\ sleeps' = <<>>
    /\ exhausted' = FALSE
    /\ UNCHANGED <<args, total_blocks, batch_end, translated_content,
                   progress_log, pause_log, batches>>

(***************************************************************************)
(* Line 157: time.sleep(1) between batches.                                *)
(***************************************************************************)
Pause ==
    /\ pc = "pause"
    /\ pause_log' = Append(pause_log, <<batch_end, 1>>)
    /\ i' = i + batch_size
    /\ pc' = "loop"
    /\ UNCHANGED <<args, result, subtitles, total_blocks, batch_end,
                   translated_content, progress_log, batches, batch_outcomes,
                   tb_vars>>

(***************************************************************************)
(* Lines 159-173: the loop is over: serialise, final progress, return.     *)
(* Reading a 'translated_text' key that is absent raises KeyError, which   *)
(* the except clause logs and raises again.                                *)
(***************************************************************************)
FormatAndReturn ==
    /\ pc = "loop"
    /\ ~(i < total_blocks)
    /\ IF \E k \in 1..Len(subtitles) :
             subtitles[k].translated_text = NoTranslation
       THEN /\ result' = "raised"
            /\ UNCHANGED <<translated_content, progress_log>>
       ELSE /\ translated_content' = FormatSrt(subtitles)
            /\ progress_log' = IF has_callback
                               THEN Append(progress_log, <<1, 1>>)
                               ELSE progress_log
            /\ result' = "returned"
    /\ pc' = "done"
    /\ UNCHANGED <<args, subtitles, total_blocks, i, batch_end, pause_log,
                   batches, batch_outcomes, tb_vars>>

Next ==
    \/ Parse
    \/ BeginBatch
    \/ EnterTranslateBatch
    \/ RemoteSucceeds
    \/ RemoteFailsRetry
    \/ RemoteFailsLast
    \/ WriteResults
    \/ Pause
    \/ FormatAndReturn

Spec == Init /\ [][Next]_vars

\* the steps of the batch loop and the return
LoopNext ==
    \/ BeginBatch
    \/ EnterTranslateBatch
    \/ RemoteSucceeds
    \/ RemoteFailsRetry
    \/ RemoteFailsLast
    \/ WriteResults
    \/ Pause
    \/ FormatAndReturn

\* a sequential program: once parsed, a step that can be taken is taken (the
\* remote call answers or raises, a sleep ends, the loop goes on)
FairSpec == Spec /\ WF_vars(LoopNext)

(***************************************************************************)
(* translate_batch called on its own, on any list of text lines.           *)
(***************************************************************************)
Texts == {<<"a">>, <<"a", NL, "b">>}

BatchInputs == UNION {[1..n -> Texts] : n \in 0..MaxBatchInput}

BatchInit ==
    /\ srt_content = <<>>
    /\ batch_size = 1
    /\ has_callback = FALSE
    /\ pc = "direct"
    /\ result = "none"
    /\ subtitles = <<>>
    /\ total_blocks = 0
    /\ i = 0
    /\ batch_end = 0
    /\ translated_content = <<>>
    /\ progress_log = <<>>
    /\ pause_log = <<>>
    /\ batches = <<>>
    /\ batch_outcomes = <<>>
    /\ tb_pc = "entry"
    /\ text_lines \in BatchInputs
    /\ attempt = 0
    /\ response_lines = <<>>
    /\ translated_lines = <<>>
    /\ calls = 0
    /\ sleeps = <<>>
    /\ exhausted = FALSE

BatchNext ==
    \/ EnterTranslateBatch
    \/ RemoteSucceeds
    \/ RemoteFailsRetry
    \/ RemoteFailsLast

BatchSpec == BatchInit /\ [][BatchNext]_vars

(***************************************************************************)
(* parse_srt followed by the serialisation loop, with translated_text set  *)
(* to the source text: the round trip of a document of any block shapes.   *)
(***************************************************************************)
Tails == {<<>>, <<NL>>, <<NL, NL>>}

AllDocuments == {Document(ks, tail) : ks \in KindSeqs, tail \in Tails}

ParseInit ==
    /\ srt_content \in AllDocuments
    /\ batch_size = 1
    /\ has_callback = FALSE
    /\ pc = "roundtrip"
    /\ result = "none"
    /\ subtitles = <<>>
    /\ total_blocks = 0
    /\ i = 0
    /\ batch_end = 0
    /\ translated_content = <<>>
    /\ progress_log = <<>>
    /\ pause_log = <<>>
    /\ batches = <<>>
    /\ batch_outcomes = <<>>
    /\ TbIdle

ParseOnly ==
    /\ pc = "roundtrip"
    /\ subtitles' = parse_srt(srt_content)
    /\ total_blocks' = Len(subtitles')
    /\ pc' = "parsed"
    /\ UNCHANGED <<args, result, i, batch_end, translated_content,
                   progress_log, pause_log, batches, batch_outcomes, tb_vars>>

Reassemble ==
    /\ pc = "parsed"
    /\ translated_content' =
          FormatSrt([k \in 1..Len(subtitles) |->
                        [subtitles[k] EXCEPT !.translated_text = subtitles[k].text]])
    /\ pc' = "reassembled"
    /\ UNCHANGED <<args, result, subtitles, total_blocks, i, batch_end,
                   progress_log, pause_log, batches, batch_outcomes, tb_vars>>

(***************************************************************************)
(* parse_srt of src/sub_line_trans.py: the line-scanning parser.  Its      *)
(* entries are the dicts {'number', 'timestamp', 'text'}.                  *)
(***************************************************************************)
\* re.match(r'^\d+$', s)
IsDigits(s) == s # <<>> /\ \A k \in 1..Len(s) : s[k] \in DigitSet

\* line 47: the index where the inner while loop started at j stops
RECURSIVE TextEnd(_, _)
TextEnd(lines, j) ==
    IF j <= Len(lines) /\ Strip(lines[j]) # <<>> /\ ~IsDigits(Strip(lines[j]))
    THEN TextEnd(lines, j + 1)
    ELSE j

\* lines 25-57: the while loop from index j (1-based), subs collected so far
RECURSIVE ScanLines(_, _, _)
ScanLines(lines, j, subs) ==
    IF ~(j <= Len(lines)) THEN subs
    ELSE IF Strip(lines[j]) = <<>> THEN ScanLines(lines, j + 1, subs)
    ELSE IF ~IsInt(Strip(lines[j])) THEN ScanLines(lines, j + 1, subs)
    ELSE IF ~(j + 1 <= Len(lines)) THEN subs
    ELSE LET e == TextEnd(lines, j + 2)
         IN  ScanLines(lines, e,
                 Append(subs,
                     [number |-> IntOf(Strip(lines[j])),
                      timestamp |-> Strip(lines[j + 1]),
                      text |-> Join([k \in 1..(e - (j + 2)) |->
                                        Strip(lines[j + 1 + k])], <<NL>>)]))

scan_parse_srt(content) == ScanLines(Split(Strip(content), <<NL>>), 1, <<>>)

\* the module's call subtitles = parse_srt(content), line 194
ScanParse ==
    /\ pc = "roundtrip"
    /\ subtitles' = scan_parse_srt(srt_content)
    /\ total_blocks' = Len(subtitles')
    /\ pc' = "scanned"
    /\ UNCHANGED <<args, result, i, batch_end, translated_content,
                   progress_log, pause_log, batches, batch_outcomes, tb_vars>>

ParseNext ==
    \/ ParseOnly
    \/ Reassemble
    \/ ScanParse

ParseSpec == ParseInit /\ [][ParseNext]_vars

(***************************************************************************)
(* Properties.                                                             *)
(***************************************************************************)
Sentinels(n) == [j \in 1..n |-> Sentinel]

\* the lines of the returned document
OutputLines == Split(translated_content, <<NL>>)

\* C1: when parse_srt extracts N >= 1 entries, translate_srt_content returns
\* (it does not raise), whatever the remote call did, a document of exactly N
\* blocks of four lines (id, timestamp, text, blank), the k-th carrying the id
\* and the timestamp of the k-th parsed entry.
C1_BlocksPreserved ==
    LET parsed == parse_srt(srt_content)
        N == Len(parsed)
    IN  (pc = "done" /\ N >= 1) =>
            /\ result = "returned"
            /\ Len(OutputLines) = 4 * N + 1
            /\ OutputLines[4 * N + 1] = <<>>
            /\ \A k \in 1..N :
                  /\ OutputLines[4 * k - 3] = Str(parsed[k].id)
                  /\ OutputLines[4 * k - 2] = parsed[k].timestamp
                  /\ OutputLines[4 * k] = <<>>

\* C1 witness: a returned document of three entries, from an input with a
\* skipped block or not, where one batch failed and another got fewer lines
\* than it asked for
C1_Witness ==
    /\ pc = "done"
    /\ result = "returned"
    /\ total_blocks = 3
    /\ \E b \in 1..Len(batch_outcomes) : batch_outcomes[b].failed
    /\ \E b \in 1..Len(batch_outcomes) :
          /\ ~batch_outcomes[b].failed
          /\ \E j \in 1..Len(batch_outcomes[b].lines) :
                batch_outcomes[b].lines[j] = <<>>

C4_BatchesPartition ==
    LET N == total_blocks
        B == batch_size
    IN  /\ \A b \in 1..Len(batches) :
              /\ batches[b][1] = (IF b = 1 THEN 0 ELSE batches[b - 1][2])
              /\ batches[b][2] - batches[b][1] \in 1..B
              /\ batches[b][2] <= N
        /\ tb_pc \in {"entry", "call", "return"} /\ pc = "translating" =>
              Len(text_lines) = batches[Len(batches)][2] - batches[Len(batches)][1]
        /\ pc = "done" =>
              IF N = 0 THEN batches = <<>>
              ELSE /\ batches # <<>>
                   /\ batches[Len(batches)][2] = N
                   /\ batches[Len(batches)][2] - batches[Len(batches)][1]
                        = (IF N % B = 0 THEN B ELSE N % B)

\* C4 witness: three entries in batches of two: a slice of 2, then one of 1
C4_Witness ==
    /\ pc = "done"
    /\ total_blocks = 3
    /\ batch_size = 2
    /\ batches = <<<<0, 2>>, <<2, 3>>>>

\* C5: when the parser extracts zero entries, translate_srt_content raises
\* and makes no remote call.
C5_ZeroEntriesRaise ==
    (pc = "done" /\ total_blocks = 0) =>
        /\ result = "raised"
        /\ batch_outcomes = <<>>
        /\ calls = 0

\* the input with every line stripped and every block ended by one blank line
RECURSIVE DropTrailingEmpty(_)
DropTrailingEmpty(lines) ==
    IF lines # <<>> /\ lines[Len(lines)] = <<>>
    THEN DropTrailingEmpty(SubSeq(lines, 1, Len(lines) - 1))
    ELSE lines

Normalised(content) ==
    LET lines == Split(content, <<NL>>)
        kept == DropTrailingEmpty([k \in 1..Len(lines) |-> Strip(lines[k])])
    IN  IF kept = <<>> THEN <<>> ELSE Join(kept, <<NL>>) \o <<NL, NL>>

\* documents whose blocks all are: integer id line (written without leading
\* zeros), timestamp line, one or more text lines
WellFormedKinds == {"plain", "spaced", "multi"}

WellFormedDocuments ==
    {Document(ks, tail) :
        ks \in {x \in KindSeqs : \A k \in 1..Len(x) : x[k] \in WellFormedKinds},
        tail \in Tails}

\* C6: parsing a well-formed document and serialising the entries with
\* translated_text set to the source text gives the document with every line
\* stripped and every block ended by one blank line.
C6_RoundTrip ==
    (pc = "reassembled" /\ srt_content \in WellFormedDocuments) =>
        translated_content = Normalised(srt_content)

\* a <= b for fractions <<num, den>> with den > 0
FracLeq(a, b) == a[1] * b[2] <= b[1] * a[2]

\* C7: with a progress callback, it is called at least once per batch and
\* exactly once more, with 1.0, at completion after all batches; every
\* fraction is within [0, 1] and the fractions never decrease.
C7_Progress ==
    LET n == Len(progress_log)
        ones == {k \in 1..n : progress_log[k][1] = progress_log[k][2]}
    IN  has_callback =>
            /\ \A k \in 1..n :
                  /\ progress_log[k][2] > 0
                  /\ FracLeq(<<0, 1>>, progress_log[k])
                  /\ FracLeq(progress_log[k], <<1, 1>>)
            /\ \A k \in 1..(n - 1) : FracLeq(progress_log[k], progress_log[k + 1])
            /\ pc # "done" => n >= Len(batches) /\ ones = {}
            /\ (pc = "done" /\ result = "returned") =>
                  /\ n >= Len(batches) + 1
                  /\ ones = {n}
                  /\ Len(batch_outcomes) = Len(batches)

\* C7 witness: a run of two batches ended, with fractions 0, 2/3 and 1
C7_Witness ==
    /\ has_callback
    /\ pc = "done"
    /\ progress_log = <<<<0, 3>>, <<2, 3>>, <<1, 1>>>>

\* C8: at most 3 remote attempts per non-empty batch, none after a success;
\* after the k-th failed attempt (k = 1, 2) a wait of k x retry_delay
\* (retry_delay = 1), and no wait after the 3rd failed attempt.
C8_RetryPolicy ==
    Len(text_lines) > 0 =>
        /\ calls <= 3
        /\ sleeps = [k \in 1..Len(sleeps) |-> k * 1]
        /\ tb_pc = "call" => calls = Len(sleeps) /\ calls < 3
        /\ (tb_pc = "return" /\ ~exhausted) => calls = Len(sleeps) + 1
        /\ (tb_pc = "return" /\ exhausted) => calls = 3 /\ sleeps = <<1, 2>>

\* C8 witness: the third attempt succeeded, after waits of 1 and 2
C8_Witness ==
    /\ tb_pc = "return"
    /\ ~exhausted
    /\ calls = 3
    /\ sleeps = <<1, 2>>

\* the translated_text entry k must end with, from what translate_batch
\* returned for the batch that holds it
ExpectedText(k) ==
    LET b == CHOOSE c \in 1..Len(batch_outcomes) :
                 batch_outcomes[c].start < k /\ k <= batch_outcomes[c].end
    IN  IF batch_outcomes[b].failed
        THEN Sentinel
        ELSE batch_outcomes[b].lines[k - batch_outcomes[b].start]

C9_Completed ==
    LET parsed == parse_srt(srt_content)
        N == Len(parsed)
        B == batch_size
    IN  /\ pc = "done"
        /\ result = "returned"
        /\ Len(batch_outcomes) = (N + B - 1) \div B
        /\ \A b \in 1..Len(batch_outcomes) :
              /\ batch_outcomes[b].start = (b - 1) * B
              /\ batch_outcomes[b].end = Min(b * B, N)
              /\ batch_outcomes[b].submitted
        /\ translated_content =
              FormatSrt([k \in 1..N |->
                  [parsed[k] EXCEPT !.translated_text = ExpectedText(k)]])

C10_Sequential ==
    LET done == Len(batch_outcomes)
        nonfinal == {b \in 1..done : batches[b][2] < total_blocks}
    IN  /\ done <= Len(batches)
        /\ \A b \in 1..done :
              /\ batch_outcomes[b].start = batches[b][1]
              /\ batch_outcomes[b].end = batches[b][2]
        /\ \A b \in 1..(Len(batches) - 1) : batches[b][1] < batches[b + 1][1]
        /\ tb_pc = "idle" => Len(batches) = done
        /\ tb_pc # "idle" =>
              /\ pc = "translating"
              /\ Len(batches) = done + 1
              /\ Len(pause_log) = done
              /\ \A k \in 1..Len(subtitles) :
                    (subtitles[k].translated_text # NoTranslation) <=> (k <= i)
        /\ Len(pause_log) =
              Cardinality(nonfinal) - (IF pc = "pause" THEN 1 ELSE 0)
        /\ \A k \in 1..Len(pause_log) : pause_log[k] = <<batches[k][2], 1>>
        /\ pc = "pause" => done \in nonfinal

\* C10 witness: the second of three batches is with the remote call, after
\* one pause
C10_Witness ==
    /\ tb_pc = "call"
    /\ Len(batches) = 2
    /\ total_blocks = 3
    /\ batch_size = 1
    /\ pause_log = <<<<1, 1>>>>

\* what one step of the batch loop may do to the entries: nothing, except that
\* the step that takes the lines translate_batch returned writes, for each
\* entry of the current batch, a translated_text where there was none, taken
\* from the matching offset
C11_StepFrame ==
    /\ Len(subtitles') = Len(subtitles)
    /\ \A k \in 1..Len(subtitles) :
          /\ subtitles'[k].id = subtitles[k].id
          /\ subtitles'[k].timestamp = subtitles[k].timestamp
          /\ subtitles'[k].text = subtitles[k].text
          /\ IF pc = "translating" /\ tb_pc = "return" /\ i < k /\ k <= batch_end
             THEN /\ subtitles[k].translated_text = NoTranslation
                  /\ subtitles'[k].translated_text = translated_lines[k - i]
                  /\ subtitles'[k].translated_text # NoTranslation
             ELSE subtitles'[k].translated_text = subtitles[k].translated_text

\* C11: during the batch loop the id, timestamp and text of every parsed
\* entry and the length and order of the sequence stay as parsed; only
\* translated_text is written, once per entry, by the iteration of the batch
\* that holds it and at the matching offset; and when the serialisation
\* starts every entry has a translated_text.
C11_EntriesFrame ==
    /\ [](pc # "start" =>
            /\ Len(subtitles) = Len(parse_srt(srt_content))
            /\ \A k \in 1..Len(subtitles) :
                  /\ subtitles[k].id = parse_srt(srt_content)[k].id
                  /\ subtitles[k].timestamp = parse_srt(srt_content)[k].timestamp
                  /\ subtitles[k].text = parse_srt(srt_content)[k].text)
    /\ []((pc = "loop" /\ ~(i < total_blocks)) =>
            \A k \in 1..Len(subtitles) :
                subtitles[k].translated_text # NoTranslation)
    /\ [][pc # "start" => C11_StepFrame]_vars

\* C11 witness: three entries, the second batch has been written and the
\* serialisation is about to start
C11_Witness ==
    /\ pc = "loop"
    /\ ~(i < total_blocks)
    /\ total_blocks = 3
    /\ Len(batch_outcomes) = 2
    /\ \A k \in 1..3 : subtitles[k].translated_text # NoTranslation

\* the entries a document must give when read block by block (blocks are
\* separated by a blank line): a block whose first line is no integer, or
\* whose id line is followed by fewer than 2 lines, gives none; any other
\* block gives one entry
C12_BlockEntries(block) ==
    LET lines == Split(block, <<NL>>)
    IN  IF IsInt(lines[1]) /\ Len(lines) - 1 >= 2
        THEN <<[number |-> IntOf(lines[1]),
                timestamp |-> Strip(lines[2]),
                text |-> Join([k \in 1..(Len(lines) - 2) |->
                                  Strip(lines[k + 2])], <<NL>>)]>>
        ELSE <<>>

RECURSIVE C12_Expected(_)
C12_Expected(blocks) ==
    IF blocks = <<>> THEN <<>>
    ELSE C12_BlockEntries(Head(blocks)) \o C12_Expected(Tail(blocks))

\* C12: the line-scanning parser gives no entry for a malformed block (an id
\* line that is no integer, or an id line followed by fewer than 2 lines of
\* its block) and one entry for every other block, in the order met.
C12_MalformedSkipped ==
    pc = "scanned" =>
        subtitles = C12_Expected(Split(Strip(srt_content), <<NL, NL>>))

====
